---- MODULE Spec2Model ----
(***************************************************************************)
(* Session and request layer of the frontend:                              *)
(*   lib/api.tsx   (src/unnamed/part_002): apiFetch, parseApiError,        *)
(*                 loginApi, refreshTokenApi, logoutUserApi, getMeApi      *)
(*   lib/auth.tsx  (src/frontend/src/app/lib/auth.tsx): AuthProvider with  *)
(*                 storeTokens, clearTokens, fetchUser, refresh, initAuth, *)
(*                 login, logout                                           *)
(*                                                                         *)
(* JavaScript is single threaded: a handler runs from one network event to *)
(* the next await of a network round trip without interleaving, so every   *)
(* action below is "a response arrives and the code runs up to the next    *)
(* fetch" (or "an operation is called and runs up to its first fetch").    *)
(* The server is unconstrained: it may answer any request with any status. *)
(* The model follows one page document; what the last step settled (the   *)
(* outcome of an apiFetch call or of a session operation, the assignment   *)
(* to window.location.href) is recorded in `last`.                         *)
(* parseApiError is also followed on its own (SpecClassify): any failure    *)
(* status with any body, given in full, reaches line 150 of apiFetch.       *)
(***************************************************************************)
EXTENDS Integers, FiniteSets, Sequences, TLC

\* ---- bounds -------------------------------------------------------------
MaxCalls == 2      \* resource calls (pages calling apiFetch) that can be in flight together
MaxOps == 2        \* operations (resource calls, login, logout) started in one behaviour
MaxTokens == 2     \* token pairs the server issues in one behaviour (the stored pair is nr 1)
MaxFieldErrors == 2 \* entries of the `detail` list of an error body

\* ---- values -------------------------------------------------------------
NULL == 0          \* localStorage.getItem(...) === null / useState(null)
UNDEF == -1        \* options.token === undefined
NoResp == -1       \* no response received yet
NetFail == 0       \* fetch() rejected: no response at all

\* the concurrent activities: resource calls of pages and the provider's operations
Callers == {<<"call", i>> : i \in 1..MaxCalls}
pInit == <<"initAuth", 0>>
pLogin == <<"login", 0>>
pLogout == <<"logout", 0>>
SessionOps == {pInit, pLogin, pLogout}
Procs == Callers \cup SessionOps

ErrStatuses == {401, 503}
OkStatuses == {200, 204}
BodyShapes == {"detail_string", "not_json"}

VARIABLES
  store,            \* localStorage: access_token, refresh_token, user
  user,             \* useState user (NULL or the profile, 1)
  isAuthenticated,  \* useState isAuthenticated
  isLoading,        \* useState isLoading
  issued,           \* number of token pairs the server has issued so far
  pc,               \* position of every caller / session operation
  af,               \* the apiFetch activation every caller / operation is awaiting
  initRefreshToken, \* initAuth's local refreshToken (line 90)
  ops,              \* operations started so far
  last,             \* what the last step settled, NoEvent when it settled nothing
  resp,             \* an error response that reached line 150 of apiFetch: status and body
  thrown            \* the value line 152 threw for it, NotThrown before

vars == <<store, user, isAuthenticated, isLoading, issued, pc, af,
          initRefreshToken, ops, last, resp, thrown>>
session == <<store, user, isAuthenticated, isLoading, issued, pc, af,
             initRefreshToken, ops, last>>
classified == <<resp, thrown>>
provider == <<user, isAuthenticated, isLoading>>

\* ---- lib/api.tsx --------------------------------------------------------

\* parseApiError without the Array.isArray branch of line 74
parseApiErrorNoListBranch(body) ==
  CASE body \in {"error_envelope", "envelope_and_list"} -> "ErrorResponse"
    [] body = "detail_string" -> "FastApiError"
    [] OTHER -> "Error"

\* parseApiError that tests errObj.detail before errObj.error
parseApiErrorDetailFirst(body) ==
  CASE body = "error_envelope" -> "ErrorResponse"
    [] body = "detail_string" -> "FastApiError"
    [] body \in {"detail_list", "envelope_and_list"} -> "ValidationErrorResponse"
    [] OTHER -> "Error"

\* parseApiError without its try/catch: the SyntaxError of JSON.parse escapes
parseApiErrorNoCatch(body) ==
  CASE body \in {"error_envelope", "envelope_and_list"} -> "ErrorResponse"
    [] body = "detail_string" -> "FastApiError"
    [] body = "detail_list" -> "ValidationErrorResponse"
    [] body = "not_json" -> "SyntaxError"
    [] OTHER -> "Error"

\* parseApiError(errBody): looks at the body only, never at the status.
\* "unreadable" is response.text() rejecting: the text becomes "Unknown error".
parseApiError(body) ==
  CASE body \in {"error_envelope", "envelope_and_list"} -> "ErrorResponse"
    [] body = "detail_string" -> "FastApiError"
    [] body = "detail_list" -> "ValidationErrorResponse"
    [] OTHER -> "Error"

\* ---- error bodies in full ------------------------------------------------

\* An error body as JSON.parse sees it. json tells whether the text parses;
\* text is the text itself (for a JSON body: its serialisation); error is the
\* `error` property, <<>> when absent or null, else one envelope
\* {code, message}; detail is the `detail` property: absent, a string (text),
\* a list of {loc, msg} entries, or some other object.
NoDetail == [is |-> "absent", text |-> "", list |-> <<>>]
FieldErrs == {[loc |-> "email", msg |-> "invalid"], [loc |-> "name", msg |-> "required"]}
DetailLists == UNION {[1..n -> FieldErrs] : n \in 0..MaxFieldErrors}
Details ==
  {NoDetail, [NoDetail EXCEPT !.is = "object"]}
    \cup {[NoDetail EXCEPT !.is = "string", !.text = t] : t \in {"", "Not Found"}}
    \cup {[NoDetail EXCEPT !.is = "list", !.list = l] : l \in DetailLists}
Envelopes ==
  [code : {"not_found", "conflict", "teapot"}, message : {"no such project", "try later"}]
JsonBodies ==
  {[json |-> TRUE, text |-> "json", error |-> e, detail |-> d] :
     e \in {<<>>} \cup {<<v>> : v \in Envelopes}, d \in Details}
\* bodies JSON.parse rejects; "Unknown error" stands in when response.text() rejects
TextBodies ==
  {[json |-> FALSE, text |-> t, error |-> <<>>, detail |-> NoDetail] :
     t \in {"<html>Bad Gateway</html>", "Unknown error"}}
Bodies == JsonBodies \cup TextBodies
\* statuses for which response.ok is false
FailStatuses == {400, 401, 403, 404, 409, 422, 500, 503}

\* lines 70-75: what JSON.parse and the tests of errObj.error and errObj.detail
\* find in a body ("" is falsy, an empty list is not)
BodyShape(b) ==
  IF ~b.json THEN "not_json"
  ELSE IF b.error # <<>>
  THEN IF b.detail.is = "list" THEN "envelope_and_list" ELSE "error_envelope"
  ELSE IF b.detail.is = "string" /\ b.detail.text # "" THEN "detail_string"
  ELSE IF b.detail.is = "list" THEN "detail_list"
  ELSE "json_other"

\* parseApiError that builds an Error from the message of an envelope
ApiErrorDropsEnvelope(b) ==
  LET t == parseApiError(BodyShape(b)) IN
    IF t = "Error"
    THEN [type |-> t, error |-> <<>>, detail |-> NoDetail, message |-> b.text]
    ELSE IF t = "ErrorResponse"
    THEN [type |-> "Error", error |-> <<>>, detail |-> NoDetail, message |-> b.error[1].message]
    ELSE [type |-> t, error |-> b.error, detail |-> b.detail, message |-> ""]

\* the value parseApiError returns for the body b: the parsed object itself
\* under one of its three object types, or an Error whose message is the text
\* (line 79) or the serialisation of the parsed object (line 77)
ApiErrorOf(b) ==
  LET t == parseApiError(BodyShape(b)) IN
    IF t = "Error"
    THEN [type |-> t, error |-> <<>>, detail |-> NoDetail, message |-> b.text]
    ELSE [type |-> t, error |-> b.error, detail |-> b.detail, message |-> ""]

NotThrown == [type |-> "none", error |-> <<>>, detail |-> NoDetail, message |-> ""]
NoResponse == [status |-> NoResp, body |-> [json |-> FALSE, text |-> "", error |-> <<>>, detail |-> NoDetail]]

\* getHeaders(token): the Authorization header value, NULL when none is set.
getHeaders(token) == IF token # NULL /\ token # UNDEF THEN token ELSE NULL

AuthEndpoints == {"/auth/login", "/auth/refresh"}

\* An apiFetch activation: st is where it waits ("first" request, "refresh"
\* exchange, "retry" request) or how it ended ("ok", "err"); hdr1 and hdr are
\* the Authorization header of the first and of the current request; s1, sr, s2
\* are the statuses answered to the first request, the exchange and the retry;
\* out is the value returned or thrown.
AfNone ==
  [st |-> "none", ep |-> "none", hdr1 |-> NULL, hdr |-> NULL,
   s1 |-> NoResp, sr |-> NoResp, s2 |-> NoResp, out |-> "none"]

\* apiFetch up to its first `await fetch`: lines 92-122.
apiFetch(endpoint, token, s) ==
  LET t == IF token = UNDEF /\ endpoint \notin AuthEndpoints
           THEN s.access_token ELSE token
  IN [AfNone EXCEPT !.st = "first", !.ep = endpoint,
                    !.hdr1 = getHeaders(t), !.hdr = getHeaders(t)]

getMeApi(token, s) == apiFetch("/auth/me", token, s)
refreshTokenApi(s) == apiFetch("/auth/refresh", UNDEF, s)

Settled(a) == a.st \in {"ok", "err"}
InFlight(a) == a.st \in {"first", "refresh", "retry"}

\* the responses of the server
NetFailure == [status |-> NetFail, body |-> "none", acc |-> NULL, ref |-> NULL, usr |-> FALSE]
ErrResponsesWith(bodies) ==
  {[status |-> s, body |-> b, acc |-> NULL, ref |-> NULL, usr |-> FALSE] :
     s \in ErrStatuses, b \in bodies}
ErrResponses == ErrResponsesWith(BodyShapes)
\* errors of /auth/login and /auth/refresh: FastAPI's {"detail": "..."}; the
\* catch blocks that receive them (api line 133, auth lines 77 and 126) do not
\* look at the error
AuthErrResponses == ErrResponsesWith({"detail_string"})
OkResponses(statuses) ==
  {[status |-> s, body |-> "json", acc |-> NULL, ref |-> NULL, usr |-> FALSE] :
     s \in statuses}
\* AuthResponse {access_token, refresh_token?, user?}; token pair k is new
TokenResponses(k, users) ==
  IF k > MaxTokens THEN {}
  ELSE {[status |-> 200, body |-> "json", acc |-> k, ref |-> r, usr |-> u] :
          r \in {NULL, k}, u \in users}

\* what the server can answer to the request the activation a is waiting for:
\* no response, an error status, or success (/auth/refresh succeeds with 200 and
\* an AuthResponse; 204 No Content is answered by resource endpoints only)
ResponsesFor(a, k) ==
  {NetFailure} \cup
    (IF a.st = "refresh" \/ a.ep = "/auth/refresh"
     THEN AuthErrResponses \cup TokenResponses(k, {FALSE})
     ELSE IF a.ep = "/resource" THEN ErrResponses \cup OkResponses(OkStatuses)
     ELSE ErrResponses \cup OkResponses({200}))

IsOk(r) == r.status \in OkStatuses

Throw(a, e) == [a EXCEPT !.st = "err", !.out = e]
Return(a, r) == [a EXCEPT !.st = "ok", !.out = IF r.status = 204 THEN "empty" ELSE "payload"]

\* lines 150-156: the tail of apiFetch on a response
apiFetchTail(a, r) == IF ~IsOk(r) THEN Throw(a, parseApiError(r.body)) ELSE Return(a, r)

\* apiFetchOnFirst without the endpoint test of line 124: a 401 answered to
\* /auth/refresh starts a refresh exchange of its own
FirstRefreshesAnyEndpoint(a, s, r) ==
  IF r.status = NetFail
  THEN [af |-> Throw(a, "TypeError"), store |-> s, redir |-> FALSE]
  ELSE IF r.status = 401
  THEN IF s.refresh_token # NULL
       THEN [af |-> [a EXCEPT !.st = "refresh"], store |-> s, redir |-> FALSE]
       ELSE [af |-> Throw(a, "SessionExpired"),
             store |-> [s EXCEPT !.access_token = NULL], redir |-> TRUE]
  ELSE [af |-> apiFetchTail(a, r), store |-> s, redir |-> FALSE]

\* lines 124-148 on the first response: the 401 handling up to the exchange
apiFetchOnFirst(a, s, r) ==
  IF r.status = NetFail
  THEN [af |-> Throw(a, "TypeError"), store |-> s, redir |-> FALSE]
  ELSE IF r.status = 401 /\ a.ep \notin AuthEndpoints
  THEN IF s.refresh_token # NULL
       THEN [af |-> [a EXCEPT !.st = "refresh"], store |-> s, redir |-> FALSE]
       ELSE [af |-> Throw(a, "SessionExpired"),
             store |-> [s EXCEPT !.access_token = NULL], redir |-> TRUE]
  ELSE [af |-> apiFetchTail(a, r), store |-> s, redir |-> FALSE]

\* apiFetchOnRefresh without line 131: the request is re-issued with the
\* headers built before the exchange
RetryKeepsOldHeader(a, s, r) ==
  IF IsOk(r)
  THEN [af |-> [a EXCEPT !.st = "retry"],
        store |-> [s EXCEPT !.access_token = r.acc,
                            !.refresh_token = IF r.ref # NULL THEN r.ref ELSE @],
        redir |-> FALSE]
  ELSE [af |-> Throw(a, "SessionExpired"),
        store |-> [s EXCEPT !.access_token = NULL, !.refresh_token = NULL],
        redir |-> TRUE]

\* apiFetchOnRefresh that re-issues the request first and writes the store
\* afterwards: the store is as before when the retry is sent
RetryBeforeStore(a, s, r) ==
  IF IsOk(r)
  THEN [af |-> [a EXCEPT !.st = "retry", !.hdr = getHeaders(r.acc)],
        store |-> s,
        redir |-> FALSE]
  ELSE [af |-> Throw(a, "SessionExpired"),
        store |-> [s EXCEPT !.access_token = NULL, !.refresh_token = NULL],
        redir |-> TRUE]

\* apiFetchOnRefresh whose catch block does not throw: after a failed
\* exchange the request is re-issued with the old headers
RefreshFailureRetries(a, s, r) ==
  IF IsOk(r)
  THEN [af |-> [a EXCEPT !.st = "retry", !.hdr = getHeaders(r.acc)],
        store |-> [s EXCEPT !.access_token = r.acc,
                            !.refresh_token = IF r.ref # NULL THEN r.ref ELSE @],
        redir |-> FALSE]
  ELSE [af |-> [a EXCEPT !.st = "retry"],
        store |-> [s EXCEPT !.access_token = NULL, !.refresh_token = NULL],
        redir |-> TRUE]

\* lines 128-140 on the answer to refreshTokenApi
apiFetchOnRefresh(a, s, r) ==
  IF IsOk(r)
  THEN [af |-> [a EXCEPT !.st = "retry", !.hdr = getHeaders(r.acc)],
        store |-> [s EXCEPT !.access_token = r.acc,
                            !.refresh_token = IF r.ref # NULL THEN r.ref ELSE @],
        redir |-> FALSE]
  ELSE [af |-> Throw(a, "SessionExpired"),
        store |-> [s EXCEPT !.access_token = NULL, !.refresh_token = NULL],
        redir |-> TRUE]

\* apiFetchOnRetry with the 401 check of line 124 applied to the retried response
\* as well: a second 401 starts the exchange again
RetryLoopsOn401(a, s, r) ==
  IF r.status = NetFail
  THEN [af |-> Throw(a, "SessionExpired"),
        store |-> [s EXCEPT !.access_token = NULL, !.refresh_token = NULL],
        redir |-> TRUE]
  ELSE IF r.status = 401 /\ s.refresh_token # NULL
  THEN [af |-> [a EXCEPT !.st = "refresh"], store |-> s, redir |-> FALSE]
  ELSE [af |-> apiFetchTail(a, r), store |-> s, redir |-> FALSE]

\* apiFetchOnRetry that sends the request again when the retry is answered 503
RetryReissuesOn503(a, s, r) ==
  IF r.status = NetFail
  THEN [af |-> Throw(a, "SessionExpired"),
        store |-> [s EXCEPT !.access_token = NULL, !.refresh_token = NULL],
        redir |-> TRUE]
  ELSE IF r.status = 503
  THEN [af |-> a, store |-> s, redir |-> FALSE]
  ELSE [af |-> apiFetchTail(a, r), store |-> s, redir |-> FALSE]

\* lines 132-156 on the answer to the re-issued request; the fetch of line 132
\* is inside the try block, so its rejection lands in the catch of line 133
apiFetchOnRetry(a, s, r) ==
  IF r.status = NetFail
  THEN [af |-> Throw(a, "SessionExpired"),
        store |-> [s EXCEPT !.access_token = NULL, !.refresh_token = NULL],
        redir |-> TRUE]
  ELSE [af |-> apiFetchTail(a, r), store |-> s, redir |-> FALSE]

\* apiFetch from the arrival of a response to its next fetch or its end.
\* Result: the activation, the store, and whether the redirect was assigned.
apiFetchOnResponse(a, s, r) ==
  CASE a.st = "first" -> apiFetchOnFirst([a EXCEPT !.s1 = r.status], s, r)
    [] a.st = "refresh" -> apiFetchOnRefresh([a EXCEPT !.sr = r.status], s, r)
    [] a.st = "retry" -> apiFetchOnRetry([a EXCEPT !.s2 = r.status], s, r)

\* ---- lib/auth.tsx -------------------------------------------------------

storeTokens(s, r) ==
  [s EXCEPT !.access_token = r.acc,
            !.refresh_token = IF r.ref # NULL THEN r.ref ELSE @]

clearTokens(s) == [access_token |-> NULL, refresh_token |-> NULL, user |-> NULL]

\* fetchUser whose catch block does not call clearTokens
fetchUserKeepsTokens(a, s) ==
  IF a.st = "ok"
  THEN [store |-> [s EXCEPT !.user = 1], user |-> 1, isAuthenticated |-> TRUE, ok |-> TRUE]
  ELSE [store |-> s, user |-> NULL, isAuthenticated |-> FALSE, ok |-> FALSE]

\* fetchUser after getMeApi settled (lines 56-64): the provider state and the store
fetchUserDone(a, s) ==
  IF a.st = "ok"
  THEN [store |-> [s EXCEPT !.user = 1], user |-> 1, isAuthenticated |-> TRUE, ok |-> TRUE]
  ELSE [store |-> clearTokens(s), user |-> NULL, isAuthenticated |-> FALSE, ok |-> FALSE]

\* ---- events -------------------------------------------------------------

\* what a step settled: proc p's apiFetch call ended as the activation a (AfNone
\* when none ended; its statuses and outcome are kept, its headers are not), the operation of p ended as done ("none" when it goes on),
\* tok is the access token a login response carried, redir tells whether
\* window.location.href was assigned.
Event(p, a, done, tok, redir) ==
  [p |-> p, af |-> [a EXCEPT !.hdr1 = NULL, !.hdr = NULL], done |-> done, tok |-> tok, redir |-> redir]
NoEvent == Event(<<"none", 0>>, AfNone, "none", NULL, FALSE)
\* the event of a step in which p's apiFetch call went on or ended as a
ApiEvent(p, a, done, redir) ==
  IF Settled(a) THEN Event(p, a, done, NULL, redir) ELSE NoEvent

TypeOK ==
  /\ store \in [access_token : 0..MaxTokens, refresh_token : 0..MaxTokens, user : {NULL, 1}]
  /\ user \in {NULL, 1}
  /\ isAuthenticated \in BOOLEAN
  /\ isLoading \in BOOLEAN
  /\ issued \in 1..MaxTokens
  /\ DOMAIN pc = Procs
  /\ DOMAIN af = Procs
  /\ \A p \in Procs : af[p].st \in {"none", "first", "refresh", "retry"}
  /\ initRefreshToken \in 0..MaxTokens
  /\ ops \in 0..MaxOps
  /\ last.done \in {"none", "resolved", "rejected"}

\* construction of AuthProvider (lines 35-37) over a store left by an earlier
\* page: either token may be there, a cached user only beside an access token
Init ==
  /\ store \in {s \in [access_token : {NULL, 1}, refresh_token : {NULL, 1}, user : {NULL, 1}] :
                  s.user # NULL => s.access_token # NULL}
  /\ user = NULL
  /\ isAuthenticated = FALSE
  /\ isLoading = TRUE
  /\ issued = 1
  /\ pc = [p \in Procs |-> IF p = pInit THEN "start" ELSE "idle"]
  /\ af = [p \in Procs |-> AfNone]
  /\ initRefreshToken = NULL
  /\ ops = 0
  /\ last = NoEvent
  /\ resp = NoResponse
  /\ thrown = NotThrown

\* one response to proc p's pending request, handled by apiFetch (the actions
\* bind the result with \E over a singleton, so it is computed once)
Respond(p, r) == apiFetchOnResponse(af[p], store, r)
Issue(r) == IF r.acc # NULL THEN r.acc ELSE issued
Awaiting(p, position) == pc[p] = position /\ InFlight(af[p])
\* the activation p keeps awaiting after a step
Pending(a) == IF Settled(a) THEN AfNone ELSE a
\* a page or the user starts an operation: the effect of initAuth has run
\* (it runs right after the first render), and the budget allows one more
CanStart(p) == pc[p] = "idle" /\ pc[pInit] # "start" /\ ops < MaxOps

\* ---- resource calls made by pages: apiFetch(endpoint) with no explicit token

\* call slots are interchangeable: a new call takes the lowest free one
CallStart(c) ==
  /\ CanStart(c)
  /\ \A d \in Callers : d[2] < c[2] => pc[d] # "idle"
  /\ ops' = ops + 1
  /\ pc' = [pc EXCEPT ![c] = "running"]
  /\ af' = [af EXCEPT ![c] = apiFetch("/resource", UNDEF, store)]
  /\ last' = NoEvent
  /\ UNCHANGED <<store, provider, issued, initRefreshToken>>
  /\ UNCHANGED classified

CallResponse(c) ==
  /\ Awaiting(c, "running")
  /\ \E r \in ResponsesFor(af[c], issued + 1) :
       \E x \in {Respond(c, r)} :
       /\ af' = [af EXCEPT ![c] = Pending(x.af)]
       /\ store' = x.store
       /\ issued' = Issue(r)
       /\ pc' = [pc EXCEPT ![c] = IF Settled(x.af) THEN "idle" ELSE "running"]
       /\ last' = ApiEvent(c, x.af, IF x.af.st = "ok" THEN "resolved" ELSE "rejected", x.redir)
  /\ UNCHANGED <<provider, initRefreshToken, ops>>
  /\ UNCHANGED classified

\* ---- logout (lines 135-147) with logoutUserApi (api lines 182-190)

\* logout without its try/catch around logoutUserApi: a failed server call
\* rejects logout and skips the local clearing
LogoutPropagates(s, a) ==
  IF a.st = "err"
  THEN /\ store' = s
       /\ UNCHANGED <<user, isAuthenticated, isLoading>>
       /\ pc' = [pc EXCEPT ![pLogout] = "idle"]
       /\ last' = Event(pLogout, a, "rejected", NULL, FALSE)
  ELSE /\ store' = clearTokens(s)
       /\ user' = NULL
       /\ isAuthenticated' = FALSE
       /\ isLoading' = FALSE
       /\ pc' = [pc EXCEPT ![pLogout] = "idle"]
       /\ last' = Event(pLogout, a, "resolved", NULL, TRUE)

\* logout without setUser(null)
LogoutKeepsUser(s, a) ==
  /\ store' = clearTokens(s)
  /\ isAuthenticated' = FALSE
  /\ isLoading' = FALSE
  /\ pc' = [pc EXCEPT ![pLogout] = "idle"]
  /\ last' = Event(pLogout, a, "resolved", NULL, TRUE)
  /\ UNCHANGED user

\* lines 142-146, after logoutUserApi settled as the activation a
LogoutFinish(s, a) ==
  /\ store' = clearTokens(s)
  /\ user' = NULL
  /\ isAuthenticated' = FALSE
  /\ isLoading' = FALSE
  /\ pc' = [pc EXCEPT ![pLogout] = "idle"]
  /\ last' = Event(pLogout, a, "resolved", NULL, TRUE)

LogoutStart ==
  /\ CanStart(pLogout)
  /\ ops' = ops + 1
  /\ IF store.refresh_token = NULL
     THEN \* logoutUserApi resolves at once
          /\ LogoutFinish(store, AfNone)
          /\ UNCHANGED af
     ELSE /\ isLoading' = TRUE
          /\ pc' = [pc EXCEPT ![pLogout] = "logoutUserApi"]
          /\ af' = [af EXCEPT ![pLogout] = apiFetch("/auth/logout", UNDEF, store)]
          /\ last' = NoEvent
          /\ UNCHANGED <<store, user, isAuthenticated>>
  /\ UNCHANGED <<issued, initRefreshToken>>
  /\ UNCHANGED classified

LogoutResponse ==
  /\ Awaiting(pLogout, "logoutUserApi")
  /\ \E r \in ResponsesFor(af[pLogout], issued + 1) :
       \E x \in {Respond(pLogout, r)} :
       /\ af' = [af EXCEPT ![pLogout] = Pending(x.af)]
       /\ issued' = Issue(r)
       /\ IF Settled(x.af)
          THEN LogoutFinish(x.store, x.af)
          ELSE /\ store' = x.store
               /\ last' = NoEvent
               /\ UNCHANGED <<provider, pc>>
  /\ UNCHANGED <<initRefreshToken, ops>>
  /\ UNCHANGED classified

\* ---- refresh (lines 70-84); no page calls it, initAuth does (lines 95, 100)

\* the end of initAuth without setIsLoading(false)
InitFinishKeepsLoading(a, redir) ==
  /\ pc' = [pc EXCEPT ![pInit] = "done"]
  /\ initRefreshToken' = NULL
  /\ last' = Event(pInit, a, "resolved", NULL, redir)
  /\ UNCHANGED isLoading

\* the end of initAuth, line 107
InitFinish(a, redir) ==
  /\ pc' = [pc EXCEPT ![pInit] = "done"]
  /\ isLoading' = FALSE
  /\ initRefreshToken' = NULL
  /\ last' = Event(pInit, a, "resolved", NULL, redir)

\* refresh's catch block, lines 78-82; initAuth swallows the error it rethrows
RefreshFailed(a, s) ==
  /\ store' = clearTokens(s)
  /\ user' = NULL
  /\ isAuthenticated' = FALSE
  /\ InitFinish(a, TRUE)

\* refreshTokenApi answered (lines 74-76)
RefreshResponse ==
  /\ Awaiting(pInit, "refresh")
  /\ \E r \in ResponsesFor(af[pInit], issued + 1) :
       \E x \in {Respond(pInit, r)} :
       /\ issued' = Issue(r)
       /\ IF x.af.st = "ok"
          THEN /\ store' = storeTokens(x.store, r)
               /\ af' = [af EXCEPT ![pInit] = getMeApi(r.acc, store')]
               /\ pc' = [pc EXCEPT ![pInit] = "refreshFetchUser"]
               /\ last' = Event(pInit, x.af, "none", NULL, FALSE)
               /\ UNCHANGED <<provider, initRefreshToken>>
          ELSE /\ af' = [af EXCEPT ![pInit] = AfNone]
               /\ RefreshFailed(x.af, x.store)
  /\ UNCHANGED ops
  /\ UNCHANGED classified

\* getMeApi of the fetchUser inside refresh answered (line 76; fetchUser never throws)
RefreshFetchUserResponse ==
  /\ Awaiting(pInit, "refreshFetchUser")
  /\ \E r \in ResponsesFor(af[pInit], issued + 1) :
       \E x \in {Respond(pInit, r)} :
       /\ af' = [af EXCEPT ![pInit] = Pending(x.af)]
       /\ issued' = Issue(r)
       /\ IF Settled(x.af)
          THEN \E d \in {fetchUserDone(x.af, x.store)} :
               /\ store' = d.store
               /\ user' = d.user
               /\ isAuthenticated' = d.isAuthenticated
               /\ InitFinish(x.af, x.redir)
          ELSE /\ store' = x.store
               /\ last' = NoEvent
               /\ UNCHANGED <<provider, pc, initRefreshToken>>
  /\ UNCHANGED ops
  /\ UNCHANGED classified

\* ---- initAuth (lines 86-110), run once after construction

\* initAuth that calls fetchUser whether or not an access token was read
InitStartAlwaysFetches ==
  /\ pc[pInit] = "start"
  /\ af' = [af EXCEPT ![pInit] = getMeApi(store.access_token, store)]
  /\ pc' = [pc EXCEPT ![pInit] = "fetchUser"]
  /\ initRefreshToken' = store.refresh_token
  /\ last' = NoEvent
  /\ UNCHANGED <<store, provider, issued, ops>>
  /\ UNCHANGED classified

InitStart ==
  /\ pc[pInit] = "start"
  /\ IF store.access_token # NULL
     THEN /\ af' = [af EXCEPT ![pInit] = getMeApi(store.access_token, store)]
          /\ pc' = [pc EXCEPT ![pInit] = "fetchUser"]
          /\ initRefreshToken' = store.refresh_token
          /\ last' = NoEvent
          /\ UNCHANGED <<store, provider>>
     ELSE IF store.refresh_token # NULL
     THEN /\ af' = [af EXCEPT ![pInit] = refreshTokenApi(store)]
          /\ pc' = [pc EXCEPT ![pInit] = "refresh"]
          /\ initRefreshToken' = store.refresh_token
          /\ last' = NoEvent
          /\ UNCHANGED <<store, provider>>
     ELSE /\ user' = NULL
          /\ isAuthenticated' = FALSE
          /\ store' = clearTokens(store)
          /\ InitFinish(AfNone, FALSE)
          /\ UNCHANGED af
  /\ UNCHANGED <<issued, ops>>
  /\ UNCHANGED classified

\* getMeApi of initAuth's first fetchUser answered (lines 92-97)
InitFetchUserResponse ==
  /\ Awaiting(pInit, "fetchUser")
  /\ \E r \in ResponsesFor(af[pInit], issued + 1) :
       \E x \in {Respond(pInit, r)} :
       /\ issued' = Issue(r)
       /\ IF Settled(x.af)
          THEN \E d \in {fetchUserDone(x.af, x.store)} :
               /\ store' = d.store
               /\ user' = d.user
               /\ isAuthenticated' = d.isAuthenticated
               /\ IF ~d.ok /\ initRefreshToken # NULL /\ d.store.refresh_token # NULL
                  THEN \* refresh() finds a refresh token and starts the exchange
                       /\ af' = [af EXCEPT ![pInit] = refreshTokenApi(d.store)]
                       /\ pc' = [pc EXCEPT ![pInit] = "refresh"]
                       /\ last' = Event(pInit, x.af, "none", NULL, x.redir)
                       /\ UNCHANGED <<isLoading, initRefreshToken>>
                  ELSE \* ok, or no refreshToken, or refresh() throws "No refresh token"
                       /\ af' = [af EXCEPT ![pInit] = AfNone]
                       /\ InitFinish(x.af, x.redir)
          ELSE /\ af' = [af EXCEPT ![pInit] = x.af]
               /\ store' = x.store
               /\ last' = NoEvent
               /\ UNCHANGED <<provider, pc, initRefreshToken>>
  /\ UNCHANGED ops
  /\ UNCHANGED classified

\* ---- login (lines 112-133) with loginApi (api lines 160-176)

LoginStart ==
  /\ CanStart(pLogin)
  /\ ops' = ops + 1
  /\ isLoading' = TRUE
  /\ pc' = [pc EXCEPT ![pLogin] = "loginApi"]
  /\ last' = NoEvent
  /\ UNCHANGED <<store, user, isAuthenticated, issued, af, initRefreshToken>>
  /\ UNCHANGED classified

\* login's catch block without setIsLoading(false)
LoginFailedKeepsLoading ==
  /\ store' = clearTokens(store)
  /\ user' = NULL
  /\ isAuthenticated' = FALSE
  /\ pc' = [pc EXCEPT ![pLogin] = "idle"]
  /\ last' = Event(pLogin, AfNone, "rejected", NULL, FALSE)
  /\ UNCHANGED <<af, isLoading>>

\* login's catch block, lines 127-131
LoginFailed ==
  /\ isLoading' = FALSE
  /\ store' = clearTokens(store)
  /\ user' = NULL
  /\ isAuthenticated' = FALSE
  /\ pc' = [pc EXCEPT ![pLogin] = "idle"]
  /\ last' = Event(pLogin, AfNone, "rejected", NULL, FALSE)
  /\ UNCHANGED af

\* loginApi answered (lines 115-125)
LoginResponse ==
  /\ pc[pLogin] = "loginApi"
  /\ \E r \in {NetFailure} \cup AuthErrResponses \cup TokenResponses(issued + 1, BOOLEAN) :
       /\ issued' = Issue(r)
       /\ IF IsOk(r)
          THEN IF r.usr
               THEN /\ store' = [storeTokens(store, r) EXCEPT !.user = 1]
                    /\ user' = 1
                    /\ isAuthenticated' = TRUE
                    /\ isLoading' = FALSE
                    /\ pc' = [pc EXCEPT ![pLogin] = "idle"]
                    /\ last' = Event(pLogin, AfNone, "resolved", r.acc, FALSE)
                    /\ UNCHANGED af
               ELSE /\ store' = storeTokens(store, r)
                    /\ af' = [af EXCEPT ![pLogin] = getMeApi(r.acc, store')]
                    /\ pc' = [pc EXCEPT ![pLogin] = "fetchUser"]
                    /\ last' = NoEvent
                    /\ UNCHANGED provider
          ELSE LoginFailed
  /\ UNCHANGED <<initRefreshToken, ops>>
  /\ UNCHANGED classified

\* getMeApi of login's fetchUser answered (lines 122-125; fetchUser never throws)
LoginFetchUserResponse ==
  /\ Awaiting(pLogin, "fetchUser")
  /\ \E r \in ResponsesFor(af[pLogin], issued + 1) :
       \E x \in {Respond(pLogin, r)} :
       /\ af' = [af EXCEPT ![pLogin] = Pending(x.af)]
       /\ issued' = Issue(r)
       /\ IF Settled(x.af)
          THEN \E d \in {fetchUserDone(x.af, x.store)} :
               /\ store' = d.store
               /\ user' = d.user
               /\ isAuthenticated' = d.isAuthenticated
               /\ isLoading' = FALSE
               /\ pc' = [pc EXCEPT ![pLogin] = "idle"]
               /\ last' = Event(pLogin, x.af, "resolved", x.af.hdr1, x.redir)
          ELSE /\ store' = x.store
               /\ last' = NoEvent
               /\ UNCHANGED <<provider, pc>>
  /\ UNCHANGED <<initRefreshToken, ops>>
  /\ UNCHANGED classified

Next ==
  \/ \E c \in Callers : CallStart(c)
  \/ \E c \in Callers : CallResponse(c)
  \/ InitStart
  \/ InitFetchUserResponse
  \/ RefreshResponse
  \/ RefreshFetchUserResponse
  \/ LoginStart
  \/ LoginResponse
  \/ LoginFetchUserResponse
  \/ LogoutStart
  \/ LogoutResponse

Spec == Init /\ [][Next]_vars

\* every request gets a response or fails in transport, and the effect that
\* runs initAuth is run: the steps that handle an answer are taken when enabled
Responsive ==
  /\ WF_vars(InitStart)
  /\ WF_vars(InitFetchUserResponse)
  /\ WF_vars(RefreshResponse)
  /\ WF_vars(RefreshFetchUserResponse)
  /\ WF_vars(LoginResponse)
  /\ WF_vars(LoginFetchUserResponse)
  /\ WF_vars(LogoutResponse)
  /\ \A c \in Callers : WF_vars(CallResponse(c))

FairSpec == Init /\ [][Next]_vars /\ Responsive

\* ---- parseApiError on its own --------------------------------------------

\* no session activity: initAuth is over, nothing is stored, nobody is calling
Quiescent ==
  /\ store = clearTokens(store)
  /\ user = NULL
  /\ isAuthenticated = FALSE
  /\ isLoading = FALSE
  /\ issued = 1
  /\ pc = [p \in Procs |-> IF p = pInit THEN "done" ELSE "idle"]
  /\ af = [p \in Procs |-> AfNone]
  /\ initRefreshToken = NULL
  /\ ops = 0
  /\ last = NoEvent

\* any response with a failure status and any body reaches line 150
InitClassify ==
  /\ Quiescent
  /\ resp \in [status : FailStatuses, body : Bodies]
  /\ thrown = NotThrown

\* lines 150-153: the text of the body is read and parseApiError(errText) is
\* thrown; the status plays no part after the test of response.ok
ThrowParsed ==
  /\ thrown = NotThrown
  /\ resp.status \notin OkStatuses
  /\ thrown' = ApiErrorOf(resp.body)
  /\ UNCHANGED <<session, resp>>

NextClassify == ThrowParsed

SpecClassify == InitClassify /\ [][NextClassify]_vars

\* ---- properties ---------------------------------------------------------

EmptyStore == [access_token |-> NULL, refresh_token |-> NULL, user |-> NULL]
\* p performed a refresh exchange for the call it is still awaiting
Exchanged(p) == af[p].st \in {"refresh", "retry"}
\* a request to /auth/refresh of p is sent and not answered
RefreshInFlight(p) ==
  af[p].st = "refresh" \/ (af[p].st = "first" /\ af[p].ep = "/auth/refresh")
\* the values parseApiError can build
ParsedErrors == {"ErrorResponse", "FastApiError", "ValidationErrorResponse", "Error"}
\* the last step ended a resource call of a page
CallEnded == last.p \in Callers /\ last.done # "none"
LogoutEnded == last.p = pLogout /\ last.done # "none"
LoginEnded == last.p = pLogin /\ last.done # "none"

\* C1: calls in flight together that each got a 401 for the same access token
\* perform at most one refresh exchange between them, and all of them re-issue
\* their request with the token of that one exchange.
C1_OneExchangeForConcurrent401 ==
  \A p, q \in Procs :
    (p # q /\ Exchanged(p) /\ Exchanged(q) /\ af[p].hdr1 = af[q].hdr1) => FALSE

\* C2: at most one request to /auth/refresh is in flight at any time.
C2_OneRefreshInFlight ==
  Cardinality({p \in Procs : RefreshInFlight(p)}) <= 1

\* C3 (as claimed): a call whose first attempt and whose retry are both answered
\* 401 fails with an Unauthorized error.
C3_SecondUnauthorized ==
  (last.af.s1 = 401 /\ last.af.s2 = 401) =>
    (last.af.st = "err" /\ last.af.out = "Unauthorized")

\* C3 (amended): a call re-issues its request at most once. A 401 answered to
\* the retry ends the call: it fails with the error parseApiError builds from
\* that response's body, after exactly one successful exchange, and no call
\* that has had its retry answered is still waiting for a request.
C3_RetryAtMostOnce ==
  /\ \A p \in Procs : InFlight(af[p]) => af[p].s2 = NoResp
  /\ \A p \in Procs : af[p].st \in {"first", "refresh"} => af[p].sr = NoResp
  /\ last.af.s2 = 401 =>
       /\ last.af.st = "err"
       /\ last.af.out \in ParsedErrors
       /\ last.af.s1 = 401
       /\ last.af.sr = 200
       /\ ~InFlight(af[last.p])

C3_Witness == last.af.s1 = 401 /\ last.af.s2 = 401 /\ last.af.st = "err"

\* C4: after a failed refresh exchange, started by apiFetch's 401 handling or by
\* refresh(), the store holds no access_token, refresh_token or user and
\* isAuthenticated is false.
C4_FailedRefreshClearsAll ==
  (\/ last.af.sr \notin {NoResp, 200}
   \/ (last.af.ep = "/auth/refresh" /\ last.af.st = "err"))
  => (store = EmptyStore /\ ~isAuthenticated)

\* C5: logout ends resolved, with the store empty and the status
\* Unauthenticated, whatever the server answered to POST /auth/logout.
C5_LogoutAlwaysClears ==
  LogoutEnded =>
    /\ last.done = "resolved"
    /\ store = EmptyStore
    /\ user = NULL
    /\ ~isAuthenticated
    /\ ~isLoading

\* logout ended after its server call failed
C5_Witness == LogoutEnded /\ last.af.st = "err"

\* C6: with no access_token in the store, isAuthenticated is false.
C6_NoTokenNotAuthenticated ==
  store.access_token = NULL => ~isAuthenticated

\* C7: the store holds a cached user only beside an access_token.
C7_UserOnlyWithToken ==
  store.user # NULL => store.access_token # NULL

\* C8: a call that ends in an authorization failure refresh cannot resolve (401
\* with no refresh token stored, or 401 again on the retry) leaves the store
\* without access_token, refresh_token and user.
C8_UnresolvedFailurePurges ==
  (\/ (last.af.s1 = 401 /\ last.af.sr = NoResp /\ last.af.st = "err")
   \/ last.af.s2 = 401)
  => store = EmptyStore

\* C9: when login has resolved, the store holds the access token of the login
\* response and a call made now without an explicit token attaches it.
C9_LoginTokenAttached ==
  (LoginEnded /\ last.done = "resolved") =>
    /\ last.tok # NULL
    /\ store.access_token = last.tok
    /\ apiFetch("/resource", UNDEF, store).hdr = last.tok

\* C10: login rejects when any of its steps fails, leaving the status
\* Unauthenticated, and resolves only with the status Authenticated.
C10_LoginResolvesOnlyAuthenticated ==
  LoginEnded =>
    /\ last.af.st = "err" => last.done = "rejected"
    /\ last.done = "rejected" => (~isAuthenticated /\ ~isLoading)
    /\ last.done = "resolved" => (isAuthenticated /\ ~isLoading)

\* C11 (as claimed): once isLoading is false it is never true again.
C11_NeverBackToInitializing == [][~isLoading => ~isLoading']_vars

\* C11 (amended): isLoading goes from false to true only in the step that
\* starts login or logout, and it is false whenever login or logout has ended.
C11_LoadingOnlyWhileLoginLogout ==
  [][/\ (~isLoading /\ isLoading') =>
          \/ (pc[pLogin] = "idle" /\ pc'[pLogin] = "loginApi")
          \/ (pc[pLogout] = "idle" /\ pc'[pLogout] = "logoutUserApi")
     /\ (last'.p \in {pLogin, pLogout} /\ last'.done # "none") => ~isLoading']_vars

\* initAuth is over and a login is waiting for loginApi with isLoading true
C11_Witness == isLoading /\ pc[pInit] = "done" /\ pc[pLogin] = "loginApi"

\* C12: initAuth that found an access token ends in the step its fetchUser
\* settles: authenticated with the user set when getMeApi (with apiFetch's one
\* exchange and retry) resolved, else not authenticated and with no
\* access_token, refresh_token or user in the store; isLoading is false.
C12_InitWithAccessToken ==
  [][pc[pInit] = "fetchUser" =>
       /\ pc'[pInit] \in {"fetchUser", "done"}
       /\ pc'[pInit] = "done" =>
            /\ last'.p = pInit /\ last'.af.ep = "/auth/me"
            /\ ~isLoading'
            /\ IF last'.af.st = "ok"
               THEN isAuthenticated' /\ user' # NULL
               ELSE ~isAuthenticated' /\ user' = NULL /\ store' = EmptyStore]_vars

\* initAuth found the first token pair, its getMeApi was answered 401, one
\* exchange and the retry succeeded: it ended authenticated
C12_Witness ==
  /\ last.p = pInit /\ last.done = "resolved" /\ last.af.ep = "/auth/me"
  /\ last.af.s1 = 401 /\ last.af.sr = 200 /\ last.af.st = "ok"
  /\ issued = 2 /\ isAuthenticated

\* C13: initAuth that finds neither token ends in its first step, not
\* authenticated, with isLoading false and no request issued by anyone.
C13_InitWithoutTokens ==
  [][(pc[pInit] = "start" /\ store.access_token = NULL /\ store.refresh_token = NULL) =>
       /\ pc'[pInit] = "done"
       /\ ~isAuthenticated' /\ ~isLoading'
       /\ \A p \in Procs : af'[p] = AfNone]_vars

\* initAuth ended without having awaited any apiFetch call
C13_Witness ==
  last.p = pInit /\ last.done = "resolved" /\ last.af = NoEvent.af /\ ~isAuthenticated

\* C14: a call whose apiFetch ended assigned window.location.href exactly when
\* its first answer was 401 and either no exchange succeeded (none possible, or
\* it failed) or the retry was answered 401 again.
C14_RedirectIffUnresolved ==
  (Settled(last.af) /\ last.af.ep \notin AuthEndpoints /\ last.p # pLogout) =>
    (last.redir <=> (last.af.s1 = 401 /\ (last.af.sr # 200 \/ last.af.s2 = 401)))

C16_AuthEndpointsFailDirectly ==
  /\ \A p \in Procs : af[p].ep \in AuthEndpoints =>
        (af[p].st = "first" /\ af[p].hdr = NULL)
  /\ last.af.ep \in AuthEndpoints =>
        /\ last.af.sr = NoResp /\ last.af.s2 = NoResp
        /\ last.af.s1 \notin OkStatuses => last.af.st = "err"
  /\ refreshTokenApi(store).hdr = NULL
  /\ pc[pLogin] = "loginApi" => af[pLogin] = AfNone
  /\ (LoginEnded /\ last.done = "rejected") => last.af = NoEvent.af

\* refreshTokenApi, called while the store held a refresh token, was answered 401
C16_Witness ==
  last.af.ep = "/auth/refresh" /\ last.af.s1 = 401 /\ last.af.st = "err"

\* the body of the response that was classified carries a validation list
HasList == thrown # NotThrown /\ resp.body.json /\ resp.body.detail.is = "list"
\* ... carries an error envelope
HasEnvelope == thrown # NotThrown /\ resp.body.json /\ resp.body.error # <<>>

C18_EnvelopeMappedByCode ==
  (HasEnvelope /\ ~HasList) =>
    /\ thrown.type = (CASE resp.body.error[1].code = "not_found" -> "NotFound"
                         [] resp.body.error[1].code = "conflict" -> "Conflict"
                         [] OTHER -> "Unknown")
    /\ thrown.error # <<>>
    /\ thrown.error[1].message = resp.body.error[1].message

\* C18 (amended): an envelope with no validation list is thrown as an
\* ErrorResponse, the same for every code, with the code and the message of
\* the envelope unchanged.
C18_EnvelopeThrownUnchanged ==
  (HasEnvelope /\ ~HasList) =>
    /\ thrown.type = "ErrorResponse"
    /\ thrown.error = resp.body.error
    /\ thrown.error[1].code = resp.body.error[1].code
    /\ thrown.error[1].message = resp.body.error[1].message

\* a not_found envelope was classified
C18_Witness ==
  HasEnvelope /\ ~HasList /\ resp.body.error[1].code = "not_found"
    /\ thrown.type = "ErrorResponse"

\* C19 (as claimed): a response with status 500 or above whose body has neither
\* a validation list nor an envelope is classified ServerError.
C19_ServerError ==
  (thrown # NotThrown /\ resp.status >= 500 /\ ~HasList /\ ~HasEnvelope) =>
    thrown.type = "ServerError"

\* C19 (amended): for a response with status 500 or above whose body has
\* neither a validation list nor an envelope the status is not looked at: a
\* body that is not JSON gives an Error whose message is the text of the body,
\* a JSON body with a non-empty string detail gives a FastApiError with that
\* detail, any other JSON body gives an Error.
C19_ServerFailureByBodyOnly ==
  (thrown # NotThrown /\ resp.status >= 500 /\ ~HasList /\ ~HasEnvelope) =>
    /\ ~resp.body.json => (thrown.type = "Error" /\ thrown.message = resp.body.text)
    /\ (resp.body.json /\ resp.body.detail.is = "string" /\ resp.body.detail.text # "")
         => (thrown.type = "FastApiError" /\ thrown.detail = resp.body.detail)
    /\ (resp.body.json /\ ~(resp.body.detail.is = "string" /\ resp.body.detail.text # ""))
         => thrown.type = "Error"

\* a 503 with a body that is not JSON was classified
C19_Witness ==
  resp.status = 503 /\ ~resp.body.json /\ thrown.type = "Error"

C21_TransportFailureIsNetworkError ==
  /\ (last.af.s1 = NetFail \/ last.af.s2 = NetFail) =>
       (last.af.st = "err" /\ last.af.out = "TypeError")
  /\ last.af.out = "TypeError" => (last.af.s1 = NetFail \/ last.af.s2 = NetFail)

\* C22: while the store still holds the access token two calls in flight were
\* both answered 401 for, their refresh exchanges are not pending together:
\* both would carry the refresh token the store holds, and a server that
\* accepts each refresh token once must reject one of them.
C22_ConcurrentCallsShareOneExchange ==
  \A p, q \in Callers :
    ~(/\ p # q
      /\ af[p].st = "refresh" /\ af[q].st = "refresh"
      /\ af[p].hdr1 # NULL
      /\ af[p].hdr1 = af[q].hdr1
      /\ store.access_token = af[p].hdr1
      /\ store.refresh_token # NULL)

\* the activation a ended in a failure that is not an authorization failure:
\* no response or a status other than 401, to the first request or to the one
\* re-issued after a successful exchange
NonAuthFailure(a) ==
  /\ a.st = "err"
  /\ a.ep \in {"/resource", "/auth/me"}
  /\ \/ a.s1 \notin {401, NoResp}
     \/ (a.s1 = 401 /\ a.sr = 200 /\ a.s2 \notin {401, NoResp})
\* the step removes a token from the store
TokenRemoved ==
  \/ (store.access_token # NULL /\ store'.access_token = NULL)
  \/ (store.refresh_token # NULL /\ store'.refresh_token = NULL)

\* C23: a step that ends a call in a failure that is not an authorization
\* failure leaves access_token and refresh_token as they were, and a token is
\* removed only by a step that ends logout, a failed refresh exchange, or a
\* call whose authorization failure could not be resolved.
C23_TokensRemovedOnlyOnAuthFailure ==
  [][/\ (NonAuthFailure(last'.af) /\ last'.p # pLogout) =>
          (/\ store'.access_token = store.access_token
           /\ store'.refresh_token = store.refresh_token)
     /\ TokenRemoved =>
          \/ (last'.p = pLogout /\ last'.done # "none")
          \/ last'.af.sr \notin {NoResp, 200}
          \/ (last'.af.ep = "/auth/refresh" /\ last'.af.st = "err")
          \/ (last'.af.s1 = 401 /\ last'.af.sr = NoResp /\ last'.af.st = "err")
          \/ last'.af.s2 = 401]_vars

\* C24: in the step that re-issues a request after a successful exchange the
\* store is written first: it holds the newly issued access token, which is
\* the one the retry carries, and the old or the newly issued refresh token.
C24_StoreWrittenBeforeRetry ==
  [][\A p \in Procs :
       (af[p].st = "refresh" /\ af'[p].st = "retry") =>
         /\ issued' = issued + 1
         /\ af'[p].hdr = issued'
         /\ store'.access_token = af'[p].hdr
         /\ store'.refresh_token \in {store.refresh_token, issued'}]_vars

\* a retry is pending and the store holds the access token it carries and the
\* refresh token issued with it
C24_Witness ==
  \E p \in Procs :
    /\ af[p].st = "retry"
    /\ store.access_token = af[p].hdr
    /\ store.refresh_token = af[p].hdr
    /\ af[p].hdr > 1

\* C25: a call whose refresh exchange failed has ended: it failed with the
\* "Session expired" error, its request was not re-issued, and no call with a
\* failed exchange is waiting for any request.
C25_FailedExchangeEndsCall ==
  /\ \A p \in Procs : InFlight(af[p]) => af[p].sr \in {NoResp, 200}
  /\ last.af.sr \notin {NoResp, 200} =>
       /\ last.af.st = "err"
       /\ last.af.out = "SessionExpired"
       /\ last.af.s2 = NoResp

\* a page's call ended after the server refused its refresh exchange
C25_Witness ==
  last.p \in Callers /\ last.af.sr = 401 /\ last.af.st = "err"

\* C26: initAuth that read both tokens and whose fetchUser failed does not end
\* before a request to /auth/refresh was issued.
C26_InitRefreshesAfterFailedFetchUser ==
  [][(/\ pc[pInit] = "fetchUser"
      /\ initRefreshToken # NULL
      /\ pc'[pInit] = "done"
      /\ last'.af.st = "err")
     => last'.af.sr # NoResp]_vars

\* C27: in the step after logout ended, unless login takes it, the store stays
\* empty and isAuthenticated stays false.
C27_NothingWritesAfterLogout ==
  [][(LogoutEnded /\ pc[pLogin] = "idle" /\ pc'[pLogin] = "idle") =>
       (store' = EmptyStore /\ ~isAuthenticated')]_vars

\* C28: isAuthenticated is true exactly when user is set.
C28_AuthenticatedIffUser ==
  isAuthenticated <=> user # NULL

\* logout is waiting for its server call in an authenticated session
C28_Witness ==
  isAuthenticated /\ user # NULL /\ pc[pLogout] = "logoutUserApi"

\* C29: initAuth ends, with isLoading false, whatever the answers are.
C29_InitAlwaysFinishes ==
  <>(pc[pInit] = "done" /\ ~isLoading)

\* initAuth has ended after its refresh exchange failed
C29_Witness ==
  /\ pc[pInit] = "done" /\ ~isLoading
  /\ last.p = pInit /\ last.af.ep = "/auth/refresh" /\ last.af.st = "err"

\* the requests the activation a has issued: those answered and the pending one
Requests(a) ==
  (IF a.s1 # NoResp THEN 1 ELSE 0) + (IF a.sr # NoResp THEN 1 ELSE 0)
    + (IF a.s2 # NoResp THEN 1 ELSE 0) + (IF InFlight(a) THEN 1 ELSE 0)

\* C30: every apiFetch call that is waiting for a request ends, and no call
\* issues more than three requests.
C30_CallsSettleWithinThreeRequests ==
  /\ \A p \in Procs : InFlight(af[p]) ~> (last.p = p /\ Settled(last.af))
  /\ [](\A p \in Procs : Requests(af[p]) <= 3)
  /\ [](Requests(last.af) <= 3)

\* a page's call ended after three requests: the first, the exchange, the retry
C30_Witness ==
  last.p \in Callers /\ Settled(last.af) /\ Requests(last.af) = 3

====
